---- MODULE Spec2Model ----
(***************************************************************************)
(* A model of the news aggregation pipeline of app/scraper.py: country     *)
(* and language resolution, the relative date range, the concurrent feed   *)
(* fan-out, the sequential manual pages, filtering, deduplication,         *)
(* sorting, pagination and the image backfill.                             *)
(*                                                                         *)
(* Conventions.  A Python str on which the code computes (strip, lower,    *)
(* split, substring search) is a tuple of its characters; None is the      *)
(* tuple NoneVal.  A URL, of which the code asks only whether it contains  *)
(* a domain, is an opaque string.  A datetime is <<>> for None             *)
(* or <<ticks, aware>>, with TicksPerDay ticks to the day, so that         *)
(* datetime.date() is a real truncation.                                   *)
(***************************************************************************)
EXTENDS Integers, Sequences, FiniteSets, TLC

(***************************************************************************)
(* Python str and None                                                     *)
(***************************************************************************)
NoneVal == <<"None">>

\* Python truthiness of an Optional[str]: None and "" are both falsy.
Truthy(s) == s # NoneVal /\ s # <<>>

UpperChars == <<"A","B","C","D","E","F","G","H","I","J","K","L","M",
                "N","O","P","Q","R","S","T","U","V","W","X","Y","Z">>

LowerChars == <<"a","b","c","d","e","f","g","h","i","j","k","l","m",
                "n","o","p","q","r","s","t","u","v","w","x","y","z">>

LowerChar(c) ==
    IF \E i \in 1..Len(UpperChars) : UpperChars[i] = c
    THEN LowerChars[CHOOSE i \in 1..Len(UpperChars) : UpperChars[i] = c]
    ELSE c

UpperChar(c) ==
    IF \E i \in 1..Len(LowerChars) : LowerChars[i] = c
    THEN UpperChars[CHOOSE i \in 1..Len(LowerChars) : LowerChars[i] = c]
    ELSE c

\* str.lower()
Lower(s) == [i \in 1..Len(s) |-> LowerChar(s[i])]

\* str.upper()
Upper(s) == [i \in 1..Len(s) |-> UpperChar(s[i])]

WhiteSpace == {" ", "\t"}

\* str.strip(): drop the leading and the trailing whitespace.
Strip(s) ==
    LET nonws == {i \in 1..Len(s) : s[i] \notin WhiteSpace}
    IN IF nonws = {} THEN <<>>
       ELSE LET lo == CHOOSE i \in nonws : \A j \in nonws : i <= j
                hi == CHOOSE i \in nonws : \A j \in nonws : j <= i
            IN SubSeq(s, lo, hi)

\* s.split("-")[0]: the text before the first hyphen (all of s without one).
SplitFirst(s) ==
    LET hy == {i \in 1..Len(s) : s[i] = "-"}
    IN IF hy = {} THEN s
       ELSE SubSeq(s, 1, (CHOOSE i \in hy : \A j \in hy : i <= j) - 1)

\* s.split("-")[-1]: the text after the last hyphen (all of s without one).
SplitLast(s) ==
    LET hy == {i \in 1..Len(s) : s[i] = "-"}
    IN IF hy = {} THEN s
       ELSE SubSeq(s, (CHOOSE i \in hy : \A j \in hy : j <= i) + 1, Len(s))

\* needle in haystack, for str
Contains(hay, needle) ==
    \E i \in 0..(Len(hay) - Len(needle)) :
        \A j \in 1..Len(needle) : hay[i + j] = needle[j]

(***************************************************************************)
(* SourceResolver: country aliases and normalize_country                   *)
(***************************************************************************)
COUNTRY_ALIASES ==
    {
      <<<<"e","s">>, <<"e","s","-","E","S">>>>,
      <<<<"e","s","-","e","s">>, <<"e","s","-","E","S">>>>,
      <<<<"e","s","-","e","s","p">>, <<"e","s","-","E","S">>>>,
      <<<<"s","p","a","i","n">>, <<"e","s","-","E","S">>>>,
      <<<<"a","r">>, <<"e","s","-","A","R">>>>,
      <<<<"a","r","g">>, <<"e","s","-","A","R">>>>,
      <<<<"a","r","g","e","n","t","i","n","a">>, <<"e","s","-","A","R">>>>,
      <<<<"e","s","-","a","r">>, <<"e","s","-","A","R">>>>,
      <<<<"c","o">>, <<"e","s","-","C","O">>>>,
      <<<<"c","o","l">>, <<"e","s","-","C","O">>>>,
      <<<<"c","o","l","o","m","b","i","a">>, <<"e","s","-","C","O">>>>,
      <<<<"e","s","-","c","o">>, <<"e","s","-","C","O">>>>,
      <<<<"m","x">>, <<"e","s","-","M","X">>>>,
      <<<<"m","e","x">>, <<"e","s","-","M","X">>>>,
      <<<<"m","e","x","i","c","o">>, <<"e","s","-","M","X">>>>,
      <<<<"e","s","-","m","x">>, <<"e","s","-","M","X">>>>,
      <<<<"p","e">>, <<"e","s","-","P","E">>>>,
      <<<<"p","e","r","u">>, <<"e","s","-","P","E">>>>,
      <<<<"e","s","-","p","e">>, <<"e","s","-","P","E">>>>,
      <<<<"c","l">>, <<"e","s","-","C","L">>>>,
      <<<<"c","h","i","l","e">>, <<"e","s","-","C","L">>>>,
      <<<<"e","s","-","c","l">>, <<"e","s","-","C","L">>>>,
      <<<<"e","c">>, <<"e","s","-","E","C">>>>,
      <<<<"e","c","u","a","d","o","r">>, <<"e","s","-","E","C">>>>,
      <<<<"e","s","-","e","c">>, <<"e","s","-","E","C">>>>,
      <<<<"v","e">>, <<"e","s","-","V","E">>>>,
      <<<<"v","e","n","e","z","u","e","l","a">>, <<"e","s","-","V","E">>>>,
      <<<<"e","s","-","v","e">>, <<"e","s","-","V","E">>>>,
      <<<<"u","s">>, <<"e","n","-","U","S">>>>,
      <<<<"u","s","a">>, <<"e","n","-","U","S">>>>,
      <<<<"e","e","u","u">>, <<"e","n","-","U","S">>>>,
      <<<<"e","n","-","u","s">>, <<"e","n","-","U","S">>>>,
      <<<<"u","s","-","e","n">>, <<"e","n","-","U","S">>>>
    }

AliasKeys == {p[1] : p \in COUNTRY_ALIASES}

AliasOf(key) == (CHOOSE p \in COUNTRY_ALIASES : p[1] = key)[2]

\* app/sources.py is not among the files: the fixed set of canonical codes
\* is taken to be the codes the alias table resolves to.
SUPPORTED_COUNTRIES == {p[2] : p \in COUNTRY_ALIASES}

\* The ValueError normalize_country raises.
UnsupportedCountry == <<"ValueError: Unsupported country">>

\* normalize_country with .lower() forgotten.
normalize_country_NoLower(country) ==
    LET key == Strip(country)
    IN IF key \in AliasKeys THEN AliasOf(key)
       ELSE IF country \in SUPPORTED_COUNTRIES THEN country
       ELSE UnsupportedCountry

normalize_country(country) ==
    LET key == Lower(Strip(country))
    IN IF key \in AliasKeys THEN AliasOf(key)
       ELSE IF country \in SUPPORTED_COUNTRIES THEN country
       ELSE UnsupportedCountry

\* normalize_language(lang, country_sources)
normalize_language(lang, country_sources) ==
    IF Truthy(lang) THEN Lower(SplitFirst(lang))
    ELSE country_sources[1].language

(***************************************************************************)
(* Dates.  A date is <<day>>, None is <<>>; a datetime is <<ticks, aware>>. *)
(***************************************************************************)
TicksPerDay == 2

Today == 400

NoDate == <<>>

\* datetime.date()
DateOf(dt) == <<dt[1] \div TicksPerDay>>

\* date - timedelta(days = n)
MinusDays(d, n) == <<d[1] - n>>

PeriodDay == <<"d","a","y">>

PeriodWeek == <<"w","e","e","k">>

PeriodMonth == <<"m","o","n","t","h">>

PeriodYear == <<"y","e","a","r">>

\* date_range_from_period that takes an unknown token for no period.
date_range_from_period_Lenient(period, today) ==
    IF ~Truthy(period) THEN [raised |-> FALSE, lo |-> NoDate, hi |-> NoDate]
    ELSE LET p == Lower(period)
         IN IF p = PeriodDay
              THEN [raised |-> FALSE, lo |-> MinusDays(today, 1), hi |-> today]
            ELSE IF p = PeriodWeek
              THEN [raised |-> FALSE, lo |-> MinusDays(today, 7), hi |-> today]
            ELSE IF p = PeriodMonth
              THEN [raised |-> FALSE, lo |-> MinusDays(today, 30), hi |-> today]
            ELSE IF p = PeriodYear
              THEN [raised |-> FALSE, lo |-> MinusDays(today, 365), hi |-> today]
            ELSE [raised |-> FALSE, lo |-> NoDate, hi |-> NoDate]

\* date_range_from_period with a week of six days.
date_range_from_period_ShortWeek(period, today) ==
    IF ~Truthy(period) THEN [raised |-> FALSE, lo |-> NoDate, hi |-> NoDate]
    ELSE LET p == Lower(period)
         IN IF p = PeriodDay
              THEN [raised |-> FALSE, lo |-> MinusDays(today, 1), hi |-> today]
            ELSE IF p = PeriodWeek
              THEN [raised |-> FALSE, lo |-> MinusDays(today, 6), hi |-> today]
            ELSE IF p = PeriodMonth
              THEN [raised |-> FALSE, lo |-> MinusDays(today, 30), hi |-> today]
            ELSE IF p = PeriodYear
              THEN [raised |-> FALSE, lo |-> MinusDays(today, 365), hi |-> today]
            ELSE [raised |-> TRUE, lo |-> NoDate, hi |-> NoDate]

\* date_range_from_period(period), with today = datetime.utcnow().date();
\* raised stands for the ValueError of a period outside the enum.
date_range_from_period(period, today) ==
    IF ~Truthy(period) THEN [raised |-> FALSE, lo |-> NoDate, hi |-> NoDate]
    ELSE LET p == Lower(period)
         IN IF p = PeriodDay
              THEN [raised |-> FALSE, lo |-> MinusDays(today, 1), hi |-> today]
            ELSE IF p = PeriodWeek
              THEN [raised |-> FALSE, lo |-> MinusDays(today, 7), hi |-> today]
            ELSE IF p = PeriodMonth
              THEN [raised |-> FALSE, lo |-> MinusDays(today, 30), hi |-> today]
            ELSE IF p = PeriodYear
              THEN [raised |-> FALSE, lo |-> MinusDays(today, 365), hi |-> today]
            ELSE [raised |-> TRUE, lo |-> NoDate, hi |-> NoDate]

(***************************************************************************)
(* EntryNormalizer: parse_entry_date, parse_entry_image, normalize_text    *)
(***************************************************************************)
NoImage == "None"

\* A raw date string dateutil cannot parse (ValueError).
Unparseable == <<"unparseable">>

\* The first attribute among published, updated, pubDate that is present
\* and that dateutil parses; NoDate when there is none.  A raw string is
\* written as the datetime dateutil returns for it.
RECURSIVE FirstParsed(_)
FirstParsed(raws) ==
    IF raws = <<>> THEN NoDate
    ELSE IF Head(raws) # <<>> /\ Head(raws) # Unparseable THEN Head(raws)
    ELSE FirstParsed(Tail(raws))

\* parse_entry_date(entry): the structured published_parsed gives a naive
\* datetime; otherwise the free-text fields, parsed by dateutil, which
\* returns an aware datetime when the text carries a UTC offset.
parse_entry_date(entry) ==
    IF entry.published_parsed # <<>>
    THEN <<entry.published_parsed[1], FALSE>>
    ELSE FirstParsed(<<entry.published, entry.updated, entry.pubDate>>)

\* The first enclosure with a URL and an image MIME type.
RECURSIVE FirstImageEnclosure(_)
FirstImageEnclosure(encs) ==
    IF encs = <<>> THEN NoImage
    ELSE IF Head(encs).href # NoImage /\ Head(encs).image_type THEN Head(encs).href
    ELSE FirstImageEnclosure(Tail(encs))

\* parse_entry_image(entry): media:content, media:thumbnail, an image
\* enclosure, an <img src> of the inline content; the first hit wins.
parse_entry_image(entry) ==
    IF entry.media_content # NoImage THEN entry.media_content
    ELSE IF entry.media_thumbnail # NoImage THEN entry.media_thumbnail
    ELSE IF FirstImageEnclosure(entry.enclosures) # NoImage
         THEN FirstImageEnclosure(entry.enclosures)
    ELSE entry.content_img

\* NFKD decomposition followed by encode("ascii", "ignore"): an accented
\* letter keeps its base letter, any other non-ASCII character is dropped.
\* An accented letter is written as the letter and its mark ("o'" is
\* o-acute, "n~" is n-tilde), the inverted marks as "~?" and "~!".
AccentBase ==
    { <<"a'","a">>, <<"e'","e">>, <<"i'","i">>, <<"o'","o">>, <<"u'","u">>,
      <<"n~","n">>, <<"A'","A">>, <<"E'","E">>, <<"I'","I">>, <<"O'","O">>,
      <<"U'","U">>, <<"N~","N">> }

NonAscii == {p[1] : p \in AccentBase} \cup {"~?", "~!"}

RECURSIVE AsciiFold(_)
AsciiFold(s) ==
    IF s = <<>> THEN <<>>
    ELSE LET c == Head(s)
         IN IF \E p \in AccentBase : p[1] = c
            THEN <<(CHOOSE p \in AccentBase : p[1] = c)[2]>> \o AsciiFold(Tail(s))
            ELSE IF c \in NonAscii THEN AsciiFold(Tail(s))
            ELSE <<c>> \o AsciiFold(Tail(s))

normalize_text(text) == Lower(AsciiFold(text))

\* extract_og_image(html): og:image, then twitter:image, then
\* og:image:secure_url.
extract_og_image(html) ==
    IF html.og_image # NoImage THEN html.og_image
    ELSE IF html.twitter_image # NoImage THEN html.twitter_image
    ELSE html.og_secure_url

\* "googleusercontent.com" in url
ProxyImage == "https://lh3.googleusercontent.com/proxy/a"

GoodImage == "https://cdn.example/a.jpg"

IsProxyImage(url) == url \in {ProxyImage}

(***************************************************************************)
(* FeedFetcher: fetch_feed                                                 *)
(***************************************************************************)
SinTitulo == <<"(","s","i","n"," ","t","i'","t","u","l","o",")">>

\* entry.get("source").title or source.name
SourceTitle(entry, source) ==
    IF Truthy(entry.source_title) THEN entry.source_title ELSE source.name

\* f"{entry.get('title','')} {summary} {source_title}"
Searchable(entry, source) ==
    normalize_text(entry.title \o <<" ">> \o entry.summary \o <<" ">>
                     \o SourceTitle(entry, source))

\* The entries fetch_feed keeps: a link, and the keyword when one is given.
KeepsEntry(entry, source, keyword_lower) ==
    /\ entry.link # ""
    /\ Truthy(keyword_lower) => Contains(Searchable(entry, source), keyword_lower)

NewsItem(entry, source) ==
    [ title      |-> IF entry.title # <<>> THEN entry.title ELSE SinTitulo,
      link       |-> entry.link,
      image_path |-> parse_entry_image(entry),
      date       |-> parse_entry_date(entry),
      source     |-> SourceTitle(entry, source),
      country    |-> source.country,
      language   |-> source.language ]

FeedWarning(source, feed_url) ==
    [kind |-> "feed", source |-> source.name, url |-> feed_url]

NoWarning == [kind |-> "none"]

\* fetch_feed(client, source, feed_url, keyword_lower) on the response resp:
\* a failed GET (transport error, timeout, non-2xx) gives no item and one
\* warning; otherwise the kept entries, normalized, in feed order.
fetch_feed(source, feed_url, keyword_lower, resp) ==
    IF ~resp.ok THEN <<<<>>, FeedWarning(source, feed_url)>>
    ELSE LET kept == SelectSeq(resp.entries,
                               LAMBDA e : KeepsEntry(e, source, keyword_lower))
         IN << [i \in 1..Len(kept) |-> NewsItem(kept[i], source)], NoWarning >>

(***************************************************************************)
(* The source catalog (app/sources.py, not among the files): NewsSource    *)
(* records with id, name, country, language and an ordered list of feed    *)
(* URLs.                                                                   *)
(***************************************************************************)
es_ES == <<"e","s","-","E","S">>

en_US == <<"e","n","-","U","S">>

SourceElPais ==
    [ id |-> "elpais", name |-> <<"P","a","i'","s">>, country |-> es_ES,
      language |-> <<"e","s">>, feeds |-> << <<"https://elpais.example/rss">> >> ]

SourceNYT ==
    [ id |-> "nyt", name |-> <<"N","Y","T">>, country |-> en_US,
      language |-> <<"e","n">>, feeds |-> << <<"https://nyt.example/rss">> >> ]

\* The catalogs a deployment may hold: two sources, or none at all.
Catalogs == { <<SourceElPais, SourceNYT>>, <<>> }

sources_for_country(cat, country) == SelectSeq(cat, LAMBDA s : s.country = country)

active_sources(cat) == cat

\* google_news_feed(keyword, country, language): the search URL, as
\* <<endpoint, q, hl, gl, ceid>>.
google_news_feed(keyword, country, language) ==
    LET lg == Lower(SplitFirst(IF Truthy(language) THEN language ELSE <<"e","s">>))
        gl == IF Truthy(country) THEN Upper(SplitLast(country)) ELSE <<"U","S">>
    IN <<"https://news.google.com/rss/search", keyword, lg, gl, gl \o <<":">> \o lg>>

GoogleNewsName == <<"G","o","o","g","l","e"," ","N","e","w","s">>

\* The ad-hoc NewsSource of the fallback feed.
g_source(keyword, normalized_country, language, lg) ==
    [ id |-> "google-news",
      name |-> GoogleNewsName,
      country |-> IF Truthy(normalized_country) THEN normalized_country
                  ELSE <<"a","l","l">>,
      language |-> IF Truthy(lg) THEN lg
                   ELSE IF Truthy(language) THEN Lower(SplitFirst(language))
                   ELSE <<"e","s">>,
      feeds |-> << google_news_feed(keyword, normalized_country,
                                    IF Truthy(language) THEN language ELSE lg) >> ]

\* The tasks of the fan-out, in creation order: one per feed of each source.
RECURSIVE FeedTasks(_, _)
FeedTasks(srcs, keyword_lower) ==
    IF srcs = <<>> THEN <<>>
    ELSE [ i \in 1..Len(Head(srcs).feeds) |->
             [ source |-> Head(srcs), feed_url |-> Head(srcs).feeds[i],
               keyword_lower |-> keyword_lower ] ]
         \o FeedTasks(Tail(srcs), keyword_lower)

\* The effective language of lines 224-229.
EffectiveLanguage(language, normalized_country, srcs) ==
    IF Truthy(language) THEN Lower(SplitFirst(language))
    ELSE IF Truthy(normalized_country) THEN normalize_language(NoneVal, srcs)
    ELSE NoneVal

\* OrDate with the operands swapped: period_from or date_from.
OrDateDerivedFirst(explicit, derived) == IF derived # NoDate THEN derived ELSE explicit

\* date_from or period_from
OrDate(explicit, derived) == IF explicit # NoDate THEN explicit ELSE derived

(***************************************************************************)
(* Filter / Dedup / Paginate                                               *)
(***************************************************************************)
\* PassesFilter with the undated items let through the date test.
PassesFilterUndated(item, lg, lo, hi) ==
    /\ ~(Truthy(lg) /\ item.language # lg)
    /\ (lo # NoDate \/ hi # NoDate) =>
          \/ item.date = NoDate
          \/ /\ ~(lo # NoDate /\ DateOf(item.date)[1] < lo[1])
             /\ ~(hi # NoDate /\ DateOf(item.date)[1] > hi[1])

\* PassesFilter with the language test forgotten.
PassesFilterAnyLanguage(item, lg, lo, hi) ==
    (lo # NoDate \/ hi # NoDate) =>
        /\ item.date # NoDate
        /\ ~(lo # NoDate /\ DateOf(item.date)[1] < lo[1])
        /\ ~(hi # NoDate /\ DateOf(item.date)[1] > hi[1])

\* The language and date tests of lines 272-283.
PassesFilter(item, lg, lo, hi) ==
    /\ ~(Truthy(lg) /\ item.language # lg)
    /\ (lo # NoDate \/ hi # NoDate) =>
          /\ item.date # NoDate
          /\ ~(lo # NoDate /\ DateOf(item.date)[1] < lo[1])
          /\ ~(hi # NoDate /\ DateOf(item.date)[1] > hi[1])

FilterItems(its, lg, lo, hi) ==
    SelectSeq(its, LAMBDA it : PassesFilter(it, lg, lo, hi))

\* Deduplicate by link: an item is kept unless its link was seen before.
RECURSIVE DedupFrom(_, _)
DedupFrom(its, seen) ==
    IF its = <<>> THEN <<>>
    ELSE IF Head(its).link \in seen THEN DedupFrom(Tail(its), seen)
    ELSE <<Head(its)>> \o DedupFrom(Tail(its), seen \cup {Head(its).link})

\* Deduplicate keeping the last item of each link instead of the first.
DeduplicateKeepsLast(its) ==
    LET F[k \in 0..Len(its)] ==
            IF k = 0 THEN <<>>
            ELSE IF \E j \in (k + 1)..Len(its) : its[j].link = its[k].link
                 THEN F[k - 1]
            ELSE Append(F[k - 1], its[k])
    IN F[Len(its)]

\* Deduplicate with the seen test forgotten.
DeduplicateKeepsAll(its) == its

Deduplicate(its) == DedupFrom(its, {})

\* datetime.min, a naive datetime
DatetimeMin == <<0, FALSE>>

\* key = lambda x: x.date or datetime.min
SortKey(item) == IF item.date # NoDate THEN item.date ELSE DatetimeMin

\* Comparing a naive with an aware datetime raises TypeError; a sort of two
\* or more keys compares every key with some other one.
SortRaises(its) ==
    /\ Len(its) >= 2
    /\ \E i, j \in 1..Len(its) : SortKey(its[i])[2] # SortKey(its[j])[2]

\* Insert into a list sorted by descending key, after the equal keys.
RECURSIVE InsertDesc(_, _)
InsertDesc(sorted, it) ==
    IF sorted = <<>> THEN <<it>>
    ELSE IF SortKey(Head(sorted))[1] >= SortKey(it)[1]
         THEN <<Head(sorted)>> \o InsertDesc(Tail(sorted), it)
    ELSE <<it>> \o sorted

RECURSIVE SortFrom(_, _)
SortFrom(sorted, its) ==
    IF its = <<>> THEN sorted
    ELSE SortFrom(InsertDesc(sorted, Head(its)), Tail(its))

\* SortByDateDesc with reverse = True forgotten: ascending.
SortByDateAsc(its) ==
    IF its = <<>> THEN <<>>
    ELSE LET srt == SortFrom(<<>>, its)
         IN [i \in 1..Len(srt) |-> srt[Len(srt) + 1 - i]]

\* list.sort(key = ..., reverse = True): descending and stable.
SortByDateDesc(its) == SortFrom(<<>>, its)

Min(a, b) == IF a <= b THEN a ELSE b

\* seq[start:end], for 0 <= start <= end
Slice(seq, start, end) ==
    IF start >= Len(seq) THEN <<>>
    ELSE SubSeq(seq, start + 1, Min(end, Len(seq)))

\* PageStart with the page counted from zero.
PageStartFromZero(page, page_size) == page * page_size

PageStart(page, page_size) == (page - 1) * page_size

PageEnd(page, page_size) == PageStart(page, page_size) + page_size

PageSlice(its, page, page_size) ==
    Slice(its, PageStart(page, page_size), PageEnd(page, page_size))

TruncationWarning(n) == [kind |-> "truncated", total |-> n]

(***************************************************************************)
(* ManualPageFetcher                                                       *)
(***************************************************************************)
MaxManual == 2

\* MANUAL_SOURCES["es-ES"], the first pages of the list: the URL, its host
\* (url.split("/")[2]) and the URL as text.
ManualPageTable ==
    << [ url  |-> "https://eurydice.eacea.ec.europa.eu/es/eurypedia/spain/educacion-superior",
         host |-> "eurydice.eacea.ec.europa.eu",
         text |-> <<"e","u","r","y","d","i","c","e","/","e","d","u","c","a","c","i","o","n">> ],
       [ url  |-> "https://www.unesco.org/es/higher-education",
         host |-> "www.unesco.org",
         text |-> <<"u","n","e","s","c","o","/","e","d","u","c","a","t","i","o","n">> ],
       [ url  |-> "https://www.aecid.es/educacion-superior",
         host |-> "www.aecid.es",
         text |-> <<"a","e","c","i","d","/","e","d","u","c","a","c","i","o","n">> ] >>

MANUAL_SOURCES(country) ==
    IF country = es_ES
    THEN SubSeq(ManualPageTable, 1, Min(MaxManual, Len(ManualPageTable)))
    ELSE <<>>

manual_sources_for_country(country) == MANUAL_SOURCES(country)

ManualWarning(url) == [kind |-> "manual", url |-> url]

\* One iteration of the loop of fetch_manual_sources: the page entry, the
\* response to its GET, and the (items, warnings) so far.
ManualStep(entry, resp, keyword_lower, language, acc) ==
    IF ~resp.ok THEN <<acc[1], Append(acc[2], ManualWarning(entry.url))>>
    ELSE LET title == IF Truthy(resp.html.title) THEN resp.html.title ELSE entry.text
             desc  == IF Truthy(resp.html.description) THEN resp.html.description
                      ELSE <<>>
             og    == extract_og_image(resp.html)
         IN IF ~Contains(normalize_text(title \o <<" ">> \o desc), keyword_lower)
            THEN acc
            ELSE << Append(acc[1],
                      [ title      |-> title,
                        image_path |-> IF og # NoImage /\ IsProxyImage(og)
                                       THEN NoImage ELSE og,
                        source     |-> entry.host,
                        link       |-> entry.url,
                        date       |-> NoDate,
                        country    |-> <<>>,
                        language   |-> language ]),
                    acc[2] >>

(***************************************************************************)
(* ImageBackfiller                                                         *)
(***************************************************************************)
\* item.image_path and "googleusercontent.com" not in item.image_path
HasUsableImage(item) ==
    item.image_path # NoImage /\ ~IsProxyImage(item.image_path)

AggregatorLink == "https://news.google.com/rss/articles/a3"

\* "news.google.com" in url
IsAggregatorUrl(url) == url \in {AggregatorLink}

NoUrl == "None"

\* BackfillTask with the test of line 322 forgotten: a task for every item.
BackfillTaskEveryItem(item) ==
    IF IsAggregatorUrl(item.link)
    THEN [stage |-> "resolve", target_url |-> item.link, redirect_url |-> NoUrl]
    ELSE [stage |-> "target", target_url |-> item.link, redirect_url |-> NoUrl]

\* backfill_images: a candidate loses its image and gets a task, which
\* first awaits the redirect resolution or the GET of the link.
BackfillTask(item) ==
    IF HasUsableImage(item)
    THEN [stage |-> "skip", target_url |-> NoUrl, redirect_url |-> NoUrl]
    ELSE IF IsAggregatorUrl(item.link)
         THEN [stage |-> "resolve", target_url |-> item.link, redirect_url |-> NoUrl]
    ELSE [stage |-> "target", target_url |-> item.link, redirect_url |-> NoUrl]

ClearCandidate(item) ==
    IF HasUsableImage(item) THEN item ELSE [item EXCEPT !.image_path = NoImage]

\* UsableOgImage that never finds an image.
UsableOgImageNone(html) == NoImage

\* UsableOgImage with the proxy test forgotten.
UsableOgImageAnyDomain(html) == extract_og_image(html)

\* image = extract_og_image(html); a proxy image counts as none.
UsableOgImage(html) ==
    LET image == extract_og_image(html)
    IN IF image # NoImage /\ IsProxyImage(image) THEN NoImage ELSE image

(***************************************************************************)
(* The network: what a GET may answer                                      *)
(***************************************************************************)
Link1 == "https://elpais.example/a1"

Link2 == "https://nyt.example/a2"

RawEntry(link, title, published_parsed, updated, media_content, media_thumbnail) ==
    [ link |-> link, title |-> title, summary |-> <<>>, source_title |-> NoneVal,
      published_parsed |-> published_parsed, published |-> <<>>,
      updated |-> updated, pubDate |-> <<>>,
      media_content |-> media_content, media_thumbnail |-> media_thumbnail,
      enclosures |-> <<>>, content_img |-> NoImage ]

\* RSS entry of late today, matching the keyword, without an image.
EntryToday ==
    RawEntry(Link1, <<"e","d","u","c","a","c","i","o","n"," ","h","o","y">>,
             <<Today * TicksPerDay + (TicksPerDay - 1)>>, <<>>, NoImage, NoImage)

\* Atom entry with only <updated>, two days old: dateutil gives an aware
\* datetime.  Its image is a proxy thumbnail.
EntryAtom ==
    RawEntry(Link2, <<"E","D","U","C","A","C","I","O'","N">>,
             <<>>, <<(Today - 2) * TicksPerDay, TRUE>>, ProxyImage, NoImage)

\* Ten days old, the link of EntryToday, a usable thumbnail.
EntryOld ==
    RawEntry(Link1, <<"~?","E","d","u","c","a","c","i","o'","n","?">>,
             <<(Today - 10) * TicksPerDay>>, <<>>, NoImage, GoodImage)

\* No date at all, an aggregator link, a title without the keyword.
EntryUndated ==
    RawEntry(AggregatorLink, <<"G","o","l">>, <<>>, Unparseable, NoImage, NoImage)

\* No link: skipped.
EntryNoLink ==
    RawEntry("", <<"e","d","u","c","a","c","i","o","n">>,
             <<(Today - 2) * TicksPerDay>>, <<>>, NoImage, NoImage)

FeedBodies ==
    { <<>>,
      <<EntryToday>>,
      <<EntryAtom, EntryNoLink>>,
      <<EntryOld, EntryToday>>,
      <<EntryUndated, EntryOld>> }

\* A failed GET, and the successful answers of a feed URL.
FailedResponse == [ok |-> FALSE]

FeedResponses == {FailedResponse} \cup {[ok |-> TRUE, entries |-> b] : b \in FeedBodies}

Html(title, og_image, twitter_image, refresh) ==
    [ title |-> title, description |-> NoneVal, og_image |-> og_image,
      twitter_image |-> twitter_image, og_secure_url |-> NoImage,
      refresh |-> refresh ]

RefreshUrl == "https://site.example/landing"

ResolvedUrl == "https://site.example/article"

\* The redirect resolution of an aggregator link: resp0.url after the
\* redirects, or the link itself when none was followed; or a failure.
ResolveResponses(link) ==
    { [ok |-> TRUE, url |-> ResolvedUrl], [ok |-> TRUE, url |-> link],
      [ok |-> FALSE, url |-> link] }

ManualResponses ==
    { FailedResponse,
      [ok |-> TRUE,
       html |-> Html(<<"E","d","u","c","a","c","i","o'","n">>, ProxyImage, NoImage, NoUrl)],
      [ok |-> TRUE, html |-> Html(NoneVal, NoImage, NoImage, NoUrl)] }

ArticleResponses ==
    { FailedResponse,
      [ok |-> TRUE, html |-> Html(NoneVal, GoodImage, NoImage, RefreshUrl)],
      [ok |-> TRUE, html |-> Html(NoneVal, ProxyImage, NoImage, NoUrl)],
      [ok |-> TRUE, html |-> Html(NoneVal, ProxyImage, NoImage, RefreshUrl)],
      [ok |-> TRUE, html |-> Html(NoneVal, NoImage, GoodImage, NoUrl)],
      [ok |-> TRUE, html |-> Html(NoneVal, NoImage, NoImage, RefreshUrl)] }

(***************************************************************************)
(* Requests                                                                *)
(***************************************************************************)
MaxPage == 3

MaxPageSize == 2

Keyword == <<"E","d","u","c","a","c","i","o'","n">>

CountryTokens == { NoneVal, <<" ","E","S">>, <<"p","e">>, <<"x","x">> }

LanguageTokens == { NoneVal, <<"E","N","-","u","s">> }

PeriodTokens == { NoneVal, <<"W","e","e","k">>, <<"h","o","u","r">> }

DateFroms == { NoDate, <<Today - 10>> }

DateTos == { NoDate, <<Today - 5>> }

Request(country, language, period, date_from, date_to, page, page_size) ==
    [ keyword |-> Keyword, country |-> country, language |-> language,
      period |-> period, date_from |-> date_from, date_to |-> date_to,
      page |-> page, page_size |-> page_size ]

Requests ==
    { Request(c, l, p, f, t, n, s) :
        c \in CountryTokens, l \in LanguageTokens, p \in PeriodTokens,
        f \in DateFroms, t \in DateTos, n \in 1..MaxPage, s \in 1..MaxPageSize }

(***************************************************************************)
(* State of one call of fetch_news                                         *)
(***************************************************************************)
VARIABLES
    pc,                 \* where the coroutine stands
    req,                \* the arguments of the call
    catalog,            \* the source catalog
    error,              \* the exception fetch_news raised, or "none"
    normalized_country, sources, lang, effective_from, effective_to,
    tasks,              \* the fetch_feed coroutines, in creation order
    results,            \* per task: Pending, or <<items, warning>>
    feed_urls,
    manual_pos,         \* pages of the manual list already fetched
    manual_acc,         \* <<items, warnings>> of fetch_manual_sources so far
    items, warnings, filtered, unique_items, total, page_items,
    bf,                 \* per page item: its backfill task
    log,                \* history: the GETs answered so far, per coroutine
    completion          \* history: the coroutines in the order of their
                        \* answers, or Untracked

vars == << pc, req, catalog, error, normalized_country, sources, lang,
           effective_from, effective_to, tasks, results, feed_urls,
           manual_pos, manual_acc, items, warnings, filtered, unique_items,
           total, page_items, bf, log, completion >>

\* The place of a coroutine that has not returned yet: no items.
Pending == << <<>>, [kind |-> "pending"] >>

\* The order of the answers is recorded only where a property reads it.
Untracked == <<"untracked">>

InitTracked(reqs, order) ==
    /\ pc = "start"
    /\ req \in reqs
    /\ catalog \in Catalogs
    /\ error = "none"
    /\ normalized_country = NoneVal
    /\ sources = <<>>
    /\ lang = NoneVal
    /\ effective_from = NoDate
    /\ effective_to = NoDate
    /\ tasks = <<>>
    /\ results = <<>>
    /\ feed_urls = <<>>
    /\ manual_pos = 0
    /\ manual_acc = << <<>>, <<>> >>
    /\ items = <<>>
    /\ warnings = <<>>
    /\ filtered = <<>>
    /\ unique_items = <<>>
    /\ total = 0
    /\ page_items = <<>>
    /\ bf = <<>>
    /\ log = {}
    /\ completion = order

InitWith(reqs) == InitTracked(reqs, Untracked)

Init == InitWith(Requests)

(***************************************************************************)
(* fetch_news                                                              *)
(***************************************************************************)
\* ResultItems with the results taken in the order the feeds answered.
ResultItemsAsCompleted(res) ==
    LET order == SelectSeq(completion, LAMBDA u : u[1] = "feed")
        F[k \in 0..Len(order)] ==
            IF k = 0 THEN <<>> ELSE F[k - 1] \o res[order[k][2]][1]
    IN F[Len(order)]

RECURSIVE ResultItems(_)
ResultItems(res) ==
    IF res = <<>> THEN <<>> ELSE Head(res)[1] \o ResultItems(Tail(res))

RECURSIVE ResultWarnings(_)
ResultWarnings(res) ==
    IF res = <<>> THEN <<>>
    ELSE (IF Head(res)[2] # NoWarning THEN <<Head(res)[2]>> ELSE <<>>)
         \o ResultWarnings(Tail(res))

AllSettled(tsk) == \A i \in 1..Len(tsk) : tsk[i].stage \in {"skip", "done"}

\* WithTruncation with the page's start index in place of its end.
WithTruncationFromStart(warns, n, page, page_size) ==
    IF n > PageStart(page, page_size) THEN Append(warns, TruncationWarning(n))
    ELSE warns

WithTruncation(warns, n, page, page_size) ==
    IF n > PageEnd(page, page_size) THEN Append(warns, TruncationWarning(n))
    ELSE warns

\* History of the GETs: the coroutine (unit) that awaited it, its rank among
\* the GETs of that coroutine, the URL, whether it succeeded, and the image
\* the scan of its body found.
GetsOf(unit) == {r \in log : r.unit = unit}

Answered(unit, kind, url, ok, image) ==
    /\ log' = log \cup { [ unit |-> unit, n |-> Cardinality(GetsOf(unit)) + 1,
                            kind |-> kind, url |-> url, ok |-> ok,
                            image |-> image ] }
    /\ completion' = IF completion = Untracked THEN completion
                     ELSE Append(completion, unit)

\* A feed URL in the history: its text before the query, which tells the
\* feeds of one request apart.
Endpoint(feed_url) == feed_url[1]

ScannedImage(resp) == IF resp.ok THEN extract_og_image(resp.html) ELSE NoImage

\* Lines 216-256: validation, the effective language and date range, and
\* the creation of the feed tasks, up to the await of asyncio.gather.
Start ==
    /\ pc = "start"
    /\ LET nc   == IF Truthy(req.country) THEN normalize_country(req.country)
                   ELSE NoneVal
           srcs == IF nc = UnsupportedCountry THEN <<>>
                   ELSE IF Truthy(nc) THEN sources_for_country(catalog, nc)
                   ELSE active_sources(catalog)
           bad  == nc = UnsupportedCountry \/ (Truthy(nc) /\ srcs = <<>>)
           lg   == IF bad THEN NoneVal ELSE EffectiveLanguage(req.language, nc, srcs)
           pr   == date_range_from_period(req.period, <<Today>>)
           kw   == normalize_text(req.keyword)
           g    == g_source(req.keyword, nc, req.language, lg)
           tk   == FeedTasks(srcs, kw)
                   \o << [source |-> g, feed_url |-> g.feeds[1],
                          keyword_lower |-> NoneVal] >>
       IN IF bad \/ pr.raised
          THEN \* a raise leaves the locals assigned before it
               /\ pc' = "raised"
               /\ error' = IF nc = UnsupportedCountry THEN "UnsupportedCountry"
                           ELSE IF bad THEN "NoSources"
                           ELSE "InvalidPeriod"
               /\ normalized_country' = IF nc = UnsupportedCountry THEN NoneVal ELSE nc
               /\ sources' = srcs
               /\ lang' = lg
               /\ UNCHANGED << effective_from, effective_to, tasks, results,
                               feed_urls >>
          ELSE /\ pc' = "fetching"
               /\ error' = "none"
               /\ normalized_country' = nc
               /\ sources' = srcs
               /\ lang' = lg
               /\ effective_from' = OrDate(req.date_from, pr.lo)
               /\ effective_to' = OrDate(req.date_to, pr.hi)
               /\ tasks' = tk
               /\ results' = [i \in 1..Len(tk) |-> Pending]
               /\ feed_urls' = [i \in 1..Len(tk) |-> <<tk[i].source.id, tk[i].feed_url>>]
    /\ UNCHANGED << req, catalog, manual_pos, manual_acc, items, warnings,
                    filtered, unique_items, total, page_items, bf, log,
                    completion >>

\* One fetch_feed coroutine runs from the answer of its GET to its return.
FeedComplete(i) ==
    /\ pc = "fetching"
    /\ results[i] = Pending
    /\ \E resp \in FeedResponses :
         /\ results' = [results EXCEPT ![i] =
                          fetch_feed(tasks[i].source, tasks[i].feed_url,
                                     tasks[i].keyword_lower, resp)]
         /\ Answered(<<"feed", i>>, "feed", Endpoint(tasks[i].feed_url), resp.ok,
                     NoImage)
    /\ UNCHANGED << pc, req, catalog, error, normalized_country, sources, lang,
                    effective_from, effective_to, tasks, feed_urls, manual_pos,
                    manual_acc, items, warnings, filtered, unique_items, total,
                    page_items, bf >>

\* Lines 262-302 after the manual pages: merge, filter, deduplicate, sort,
\* paginate and start the backfill; without a candidate, return at once.
Process(acc, manual_urls) ==
    LET its   == acc[1] \o ResultItems(results)
        warns == acc[2] \o ResultWarnings(results)
        flt   == FilterItems(its, lang, effective_from, effective_to)
        uniq  == Deduplicate(flt)
        srt   == SortByDateDesc(uniq)
        pg    == PageSlice(srt, req.page, req.page_size)
        tsk   == [i \in 1..Len(pg) |-> BackfillTask(pg[i])]
    IN /\ items' = its
       /\ filtered' = flt
       /\ feed_urls' = feed_urls \o [i \in 1..Len(manual_urls) |-> <<"manual", manual_urls[i].url>>]
       /\ IF SortRaises(uniq)
          THEN /\ pc' = "raised"
               /\ error' = "TypeError"
               /\ warnings' = warns
               /\ UNCHANGED << unique_items, total, page_items, bf >>
          ELSE /\ error' = "none"
               /\ unique_items' = srt
               /\ total' = Len(srt)
               /\ page_items' = [i \in 1..Len(pg) |-> ClearCandidate(pg[i])]
               /\ bf' = tsk
               /\ pc' = IF AllSettled(tsk) THEN "done" ELSE "backfill"
               /\ warnings' = IF AllSettled(tsk)
                              THEN WithTruncation(warns, Len(srt), req.page, req.page_size)
                              ELSE warns

\* AllReturned with the first answer taken for all of them.
AnyReturned(res) == \E i \in 1..Len(res) : res[i] # Pending

\* await asyncio.gather(*tasks): every task has returned.
AllReturned(res) == \A i \in 1..Len(res) : res[i] # Pending

\* asyncio.gather returns once every feed task has returned (line 256).
Gathered ==
    /\ pc = "fetching"
    /\ AllReturned(results)
    /\ LET manual_urls == IF Truthy(normalized_country)
                          THEN manual_sources_for_country(normalized_country)
                          ELSE <<>>
       IN IF manual_urls # <<>>
          THEN /\ pc' = "manual"
               /\ UNCHANGED << error, feed_urls, items, warnings, filtered,
                               unique_items, total, page_items, bf >>
          ELSE Process(manual_acc, <<>>)
    /\ UNCHANGED << req, catalog, normalized_country, sources, lang,
                    effective_from, effective_to, tasks, results, manual_pos,
                    manual_acc, log, completion >>

\* fetch_manual_sources: the answer to the GET of the next page; after the
\* last page fetch_news goes on without suspending.
ManualFetch ==
    /\ pc = "manual"
    /\ LET manual_urls == manual_sources_for_country(normalized_country)
           entry == manual_urls[manual_pos + 1]
       IN \E resp \in ManualResponses :
            LET acc == ManualStep(entry, resp, normalize_text(req.keyword),
                                  IF Truthy(lang) THEN lang ELSE <<>>, manual_acc)
            IN /\ manual_acc' = acc
               /\ manual_pos' = manual_pos + 1
               /\ Answered(<<"manual", manual_pos + 1>>, "manual", entry.url,
                           resp.ok, NoImage)
               /\ IF manual_pos + 1 < Len(manual_urls)
                  THEN UNCHANGED << pc, error, feed_urls, items, warnings, filtered,
                                    unique_items, total, page_items, bf >>
                  ELSE Process(acc, manual_urls)
    /\ UNCHANGED << req, catalog, normalized_country, sources, lang,
                    effective_from, effective_to, tasks, results >>

\* fetch_og_image, lines 335-345: the aggregator redirect is resolved with
\* one GET; on any failure the original link is kept.
BackfillResolve(i) ==
    /\ pc = "backfill"
    /\ bf[i].stage = "resolve"
    /\ \E resp \in ResolveResponses(page_items[i].link) :
         /\ bf' = [bf EXCEPT ![i] = [@ EXCEPT !.stage = "target",
                                               !.target_url = resp.url]]
         /\ Answered(<<"backfill", i>>, "resolve", bf[i].target_url, resp.ok,
                     NoImage)
    /\ UNCHANGED << pc, req, catalog, error, normalized_country, sources, lang,
                    effective_from, effective_to, tasks, results, feed_urls,
                    manual_pos, manual_acc, items, warnings, filtered,
                    unique_items, total, page_items >>

\* Lines 347-360: the GET of the target and the first scan.
BackfillTarget(i) ==
    /\ pc = "backfill"
    /\ bf[i].stage = "target"
    /\ \E resp \in ArticleResponses :
         /\ Answered(<<"backfill", i>>, "target", bf[i].target_url, resp.ok,
                     ScannedImage(resp))
         /\ IF ~resp.ok
            THEN /\ bf' = [bf EXCEPT ![i].stage = "done"]
                 /\ UNCHANGED page_items
            ELSE LET image == UsableOgImage(resp.html)
                 IN IF image = NoImage /\ resp.html.refresh # NoUrl
                    THEN /\ bf' = [bf EXCEPT ![i] = [@ EXCEPT !.stage = "hop",
                                                     !.redirect_url = resp.html.refresh]]
                         /\ UNCHANGED page_items
                    ELSE /\ bf' = [bf EXCEPT ![i].stage = "done"]
                         /\ page_items' = IF image # NoImage
                                          THEN [page_items EXCEPT ![i].image_path = image]
                                          ELSE page_items
    /\ UNCHANGED << pc, req, catalog, error, normalized_country, sources, lang,
                    effective_from, effective_to, tasks, results, feed_urls,
                    manual_pos, manual_acc, items, warnings, filtered,
                    unique_items, total >>

\* Lines 361-380: the single meta-refresh hop and the second scan.
BackfillHop(i) ==
    /\ pc = "backfill"
    /\ bf[i].stage = "hop"
    /\ \E resp \in ArticleResponses :
         LET image == IF resp.ok THEN UsableOgImage(resp.html) ELSE NoImage
         IN /\ Answered(<<"backfill", i>>, "hop", bf[i].redirect_url, resp.ok,
                        ScannedImage(resp))
            /\ bf' = [bf EXCEPT ![i].stage = "done"]
            /\ page_items' = IF image # NoImage
                             THEN [page_items EXCEPT ![i].image_path = image]
                             ELSE page_items
    /\ UNCHANGED << pc, req, catalog, error, normalized_country, sources, lang,
                    effective_from, effective_to, tasks, results, feed_urls,
                    manual_pos, manual_acc, items, warnings, filtered,
                    unique_items, total >>

\* The gather of backfill_images returns; lines 300-302.
BackfillGathered ==
    /\ pc = "backfill"
    /\ AllSettled(bf)
    /\ pc' = "done"
    /\ warnings' = WithTruncation(warnings, total, req.page, req.page_size)
    /\ UNCHANGED << req, catalog, error, normalized_country, sources, lang,
                    effective_from, effective_to, tasks, results, feed_urls,
                    manual_pos, manual_acc, items, filtered, unique_items,
                    total, page_items, bf, log, completion >>

Next ==
    \/ Start
    \/ \E i \in 1..Len(tasks) : FeedComplete(i)
    \/ Gathered
    \/ ManualFetch
    \/ \E i \in 1..Len(bf) : BackfillResolve(i)
    \/ \E i \in 1..Len(bf) : BackfillTarget(i)
    \/ \E i \in 1..Len(bf) : BackfillHop(i)
    \/ BackfillGathered

Spec == Init /\ [][Next]_vars

(***************************************************************************)
(* The same call over every spelling of the period                         *)
(***************************************************************************)
PeriodTokensAll ==
    { NoneVal, <<>>,
      PeriodDay, PeriodWeek, PeriodMonth, PeriodYear,
      <<"W","e","e","k">>, <<"M","O","N","T","H">>,
      <<"h","o","u","r">>, <<"w","e","e","k","s">>, <<"d">>, <<" ","d","a","y">> }

PeriodRequests ==
    { Request(c, NoneVal, p, NoDate, NoDate, 1, MaxPageSize) :
        c \in {NoneVal, <<" ","E","S">>, <<"x","x">>}, p \in PeriodTokensAll }

InitPeriod == InitWith(PeriodRequests)

SpecPeriod == InitPeriod /\ [][Next]_vars

(***************************************************************************)
(* The same call over every spelling of the country                        *)
(***************************************************************************)
CountryBases ==
    { <<"a","r">>, <<"a","r","g","e","n","t","i","n","a">>, <<"E","S","-","a","r">>,
      <<"e","s","-","A","R">>, es_ES, en_US, <<"s","p","a","i","n">>,
      <<"e","e","u","u">>, <<"p","e">>, <<"x","x">>, <<"e","s","-","X","X">> }

CaseVariants(t) == {t, Lower(t), Upper(t)}

PadVariants(t) == {t, <<" ">> \o t, t \o <<" ", "\t">>}

CountryTokensAll ==
    {NoneVal, <<>>}
    \cup UNION { UNION { PadVariants(c) : c \in CaseVariants(b) } : b \in CountryBases }

CountryRequests ==
    { Request(c, NoneVal, NoneVal, NoDate, NoDate, 1, MaxPageSize) :
        c \in CountryTokensAll }

InitCountry == InitWith(CountryRequests)

SpecCountry == InitCountry /\ [][Next]_vars

(***************************************************************************)
(* The same call with the order of the answers recorded                    *)
(***************************************************************************)
OrderRequests ==
    { Request(c, NoneVal, NoneVal, NoDate, NoDate, 1, MaxPageSize) :
        c \in {NoneVal, <<" ","E","S">>} }

InitOrder == InitTracked(OrderRequests, <<>>)

SpecOrder == InitOrder /\ [][Next]_vars

(***************************************************************************)
(* The same call with a fair backfill: every GET of fetch_og_image carries  *)
(* a timeout, so each awaited GET is answered, and the event loop resumes  *)
(* a coroutine that can run.                                               *)
(***************************************************************************)
InitLive == InitWith(OrderRequests)

SpecLive ==
    /\ InitLive
    /\ [][Next]_vars
    /\ WF_vars(\E i \in 1..Len(bf) :
                  BackfillResolve(i) \/ BackfillTarget(i) \/ BackfillHop(i))
    /\ WF_vars(BackfillGathered)

(***************************************************************************)
(* Properties                                                              *)
(***************************************************************************)
Returned == pc = "done"

\* Ticks of an item's timestamp, a missing one counting as the earliest.
TicksOf(item) == IF item.date = NoDate THEN -1 ELSE item.date[1]

WithoutImage(item) == [item EXCEPT !.image_path = NoImage]

\* C1: the page fetch_news returns holds no two items with the same link.
C1_UniqueLinks ==
    Returned =>
        \A i, j \in 1..Len(page_items) :
            i # j => page_items[i].link # page_items[j].link

\* C1 witness: a returned page of two items after a duplicate link was
\* dropped.
C1_Witness ==
    /\ Returned
    /\ Len(page_items) >= 2
    /\ Len(filtered) > total

\* C2: when the request gives a date bound (date_from, date_to or a period),
\* a bound is in force, every returned item has a timestamp whose date lies
\* within the bounds in force, inclusive, and no undated item is returned.
C2_DatesWithinBounds ==
    Returned =>
        /\ (req.date_from # NoDate \/ req.date_to # NoDate \/ Truthy(req.period))
               => (effective_from # NoDate \/ effective_to # NoDate)
        /\ (effective_from # NoDate \/ effective_to # NoDate) =>
               \A i \in 1..Len(page_items) :
                   /\ page_items[i].date # NoDate
                   /\ effective_from # NoDate =>
                          page_items[i].date[1] \div TicksPerDay >= effective_from[1]
                   /\ effective_to # NoDate =>
                          page_items[i].date[1] \div TicksPerDay <= effective_to[1]

\* C2 witness: a date bound is in force, an item is returned, and an undated
\* item that passed the language test was merged and left out.
C2_Witness ==
    /\ Returned
    /\ effective_from # NoDate \/ effective_to # NoDate
    /\ page_items # <<>>
    /\ \E i \in 1..Len(items) :
           /\ items[i].date = NoDate
           /\ ~Truthy(lang) \/ items[i].language = lang

\* C3: in the returned list the timestamps never increase, a missing
\* timestamp counting as the earliest; no undated item precedes a dated one.
C3_NonIncreasing ==
    Returned =>
        /\ \A i \in 1..(Len(page_items) - 1) :
               TicksOf(page_items[i]) >= TicksOf(page_items[i + 1])
        /\ \A i, j \in 1..Len(page_items) :
               (i < j /\ page_items[i].date = NoDate) => page_items[j].date = NoDate

\* C3 witness: a dated item is returned before an undated one that was
\* merged first.
C3_Witness ==
    /\ Returned
    /\ Len(page_items) = 2
    /\ page_items[1].date # NoDate
    /\ page_items[2].date = NoDate
    /\ items[1].date = NoDate

RECURSIVE ConcatPages(_, _, _)
ConcatPages(its, n, k) ==
    IF n > k THEN <<>>
    ELSE PageSlice(its, n, req.page_size) \o ConcatPages(its, n + 1, k)

\* C4: the pages 1..ceil(total/s) of size s, concatenated, are the full
\* filtered, deduplicated, sorted list, and the returned page n holds its
\* items (n-1)*s .. n*s - 1 (the images apart, which the backfill fills).
C4_Pagination ==
    Returned =>
        LET s == req.page_size
            n == req.page
            k == (total + s - 1) \div s
            first == (n - 1) * s
        IN /\ total = Len(unique_items)
           /\ {unique_items[i].link : i \in 1..total} = {filtered[i].link : i \in 1..Len(filtered)}
           /\ ConcatPages(unique_items, 1, k) = unique_items
           /\ Len(page_items) = (IF total > first THEN Min(s, total - first) ELSE 0)
           /\ \A i \in 1..Len(page_items) :
                  WithoutImage(page_items[i]) = WithoutImage(unique_items[first + i])

\* C4 witness: the second page of two, holding the one item left of three.
C4_Witness ==
    /\ Returned
    /\ total = 3
    /\ req.page = 2
    /\ req.page_size = 2
    /\ Len(page_items) = 1

\* Whether item is among the items of its.
IsIn(item, its) == \E i \in 1..Len(its) : its[i] = item

FeedFailed(i) == results[i] # Pending /\ results[i][2] # NoWarning

\* C5: whatever feeds fail, each failed feed gives no item and exactly one
\* warning naming its source and URL, the aggregation completes, and the
\* items of every feed that succeeded are merged.
C5_FailedFeedsIsolated ==
    (tasks # <<>> /\ pc \in {"backfill", "done", "raised"}) =>
        /\ (\E i \in 1..Len(tasks) : FeedFailed(i)) => pc # "raised"
        /\ \A i \in 1..Len(tasks) :
               FeedFailed(i) =>
                   /\ results[i][1] = <<>>
                   /\ Cardinality({j \in 1..Len(warnings) :
                          warnings[j] = [kind |-> "feed",
                                         source |-> tasks[i].source.name,
                                         url |-> tasks[i].feed_url]}) = 1
        /\ \A i \in 1..Len(tasks) :
               ~FeedFailed(i) =>
                   \A k \in 1..Len(results[i][1]) : IsIn(results[i][1][k], items)

\* C5, the part the code keeps: once the feeds are merged, a failed feed
\* has given no item and one warning, and every other feed's items are there.
C5_IsolationOnly ==
    (tasks # <<>> /\ pc \in {"backfill", "done", "raised"}) =>
        /\ \A i \in 1..Len(tasks) :
               FeedFailed(i) =>
                   /\ results[i][1] = <<>>
                   /\ Cardinality({j \in 1..Len(warnings) :
                          warnings[j] = [kind |-> "feed",
                                         source |-> tasks[i].source.name,
                                         url |-> tasks[i].feed_url]}) = 1
        /\ \A i \in 1..Len(tasks) :
               ~FeedFailed(i) =>
                   \A k \in 1..Len(results[i][1]) : IsIn(results[i][1][k], items)

\* C6: a call that passed the validation of country and period (its feed
\* tasks exist) never raises: it returns a result, whatever fetch fails.
C6_NoFailureOnceValidated ==
    tasks # <<>> => pc # "raised"

\* C6 as a whole: UnsupportedCountry and InvalidPeriod are the only
\* failures, and a call with an absent or recognized country and an absent
\* or valid period does not fail.
C6_OnlyValidationFailures ==
    pc = "raised" =>
        /\ error \in {"UnsupportedCountry", "InvalidPeriod"}
        /\ error = "UnsupportedCountry" =>
               normalize_country(req.country) = UnsupportedCountry
        /\ error = "InvalidPeriod" =>
               Lower(req.period) \notin {PeriodDay, PeriodWeek, PeriodMonth, PeriodYear}

\* The date test alone, on the bounds in force.
InBounds(item) ==
    (effective_from # NoDate \/ effective_to # NoDate) =>
        /\ item.date # NoDate
        /\ effective_from # NoDate => item.date[1] \div TicksPerDay >= effective_from[1]
        /\ effective_to # NoDate => item.date[1] \div TicksPerDay <= effective_to[1]

\* C7: the effective language is the lower-cased primary subtag of the
\* language parameter, else the language of the first registered source of
\* the resolved country; when it is set every returned item carries it; with
\* no country and no language no item is dropped for its language.
C7_LanguageFilter ==
    Returned =>
        /\ Truthy(req.language) => lang = Lower(SplitFirst(req.language))
        /\ (~Truthy(req.language) /\ Truthy(req.country)) =>
               lang = SelectSeq(catalog,
                                LAMBDA s : s.country = normalized_country)[1].language
        /\ Truthy(lang) =>
               \A i \in 1..Len(page_items) : page_items[i].language = lang
        /\ (~Truthy(req.language) /\ ~Truthy(req.country)) =>
               \A i \in 1..Len(items) : InBounds(items[i]) => IsIn(items[i], filtered)

\* C7 witness: language "en" is asked, an item is returned, and an entry of
\* a Spanish source that matched the keyword was merged and left out.
C7_Witness ==
    /\ Returned
    /\ lang = <<"e","n">>
    /\ page_items # <<>>
    /\ \E i \in 1..Len(items) :
           items[i].language = <<"e","s">> /\ ~IsIn(items[i], filtered)

LanguageOk(item) == ~Truthy(lang) \/ item.language = lang

PeriodDaysTable ==
    { <<PeriodDay, 1>>, <<PeriodWeek, 7>>, <<PeriodMonth, 30>>, <<PeriodYear, 365>> }

ValidPeriod(p) == Truthy(p) /\ \E e \in PeriodDaysTable : e[1] = Lower(p)

PeriodDaysOf(p) == (CHOOSE e \in PeriodDaysTable : e[1] = Lower(p))[2]

\* C8 as stated: with an explicit date_from or date_to and a period, the
\* range in force is the explicit one, no period bound applied.
C8_ExplicitRangeOnly ==
    (tasks # <<>> /\ (req.date_from # NoDate \/ req.date_to # NoDate)
                  /\ Truthy(req.period)) =>
        /\ effective_from = req.date_from
        /\ effective_to = req.date_to

\* C8 amended: each explicit bound replaces the period bound of its own
\* side and a side without an explicit bound keeps the period bound; with
\* no explicit date and no period no item is dropped for its date.
C8_ExplicitBoundPerSide ==
    tasks # <<>> =>
        /\ req.date_from # NoDate => effective_from = req.date_from
        /\ req.date_to # NoDate => effective_to = req.date_to
        /\ req.date_from = NoDate =>
               effective_from = (IF Truthy(req.period)
                                 THEN <<Today - PeriodDaysOf(req.period)>> ELSE NoDate)
        /\ req.date_to = NoDate =>
               effective_to = (IF Truthy(req.period) THEN <<Today>> ELSE NoDate)
        /\ (req.date_from = NoDate /\ req.date_to = NoDate /\ ~Truthy(req.period)
            /\ pc \in {"backfill", "done"}) =>
               \A i \in 1..Len(items) : LanguageOk(items[i]) => IsIn(items[i], filtered)

\* C8 witness: only date_to is explicit, a period is given, and an item
\* dated on or before date_to is left out by the lower bound of the period.
C8_Witness ==
    /\ Returned
    /\ req.date_from = NoDate
    /\ req.date_to # NoDate
    /\ Truthy(req.period)
    /\ \E i \in 1..Len(items) :
           /\ LanguageOk(items[i])
           /\ items[i].date # NoDate
           /\ items[i].date[1] \div TicksPerDay <= req.date_to[1]
           /\ ~IsIn(items[i], filtered)

ValidationFailed == pc = "raised" /\ tasks = <<>>

\* C9 as stated: every supplied period token that is not one of day, week,
\* month, year makes fetch_news fail.
C9_FailsOutsideEnum ==
    (pc # "start" /\ Truthy(req.period)
       /\ req.period \notin {PeriodDay, PeriodWeek, PeriodMonth, PeriodYear}) =>
        ValidationFailed

\* C9 amended: a non-empty period token whose lower-cased form is not one
\* of day, week, month, year makes fetch_news fail with a ValueError
\* (InvalidPeriod unless the country already failed); any other token does
\* not; for a valid token and no explicit dates the range is
\* [today - N, today] with N = 1, 7, 30, 365, and an item is kept exactly
\* when it is dated within it.
C9_PeriodRange ==
    pc # "start" =>
        /\ (Truthy(req.period) /\ ~ValidPeriod(req.period)) =>
               /\ ValidationFailed
               /\ error \in {"InvalidPeriod", "UnsupportedCountry", "NoSources"}
               /\ ~Truthy(req.country) => error = "InvalidPeriod"
        /\ (~Truthy(req.period) \/ ValidPeriod(req.period)) => error # "InvalidPeriod"
        /\ (tasks # <<>> /\ req.date_from = NoDate /\ req.date_to = NoDate) =>
               IF ValidPeriod(req.period)
               THEN /\ effective_from = <<Today - PeriodDaysOf(req.period)>>
                    /\ effective_to = <<Today>>
               ELSE effective_from = NoDate /\ effective_to = NoDate
        /\ (pc \in {"backfill", "done"} /\ ValidPeriod(req.period)
            /\ req.date_from = NoDate /\ req.date_to = NoDate) =>
               \A i \in 1..Len(items) :
                   LanguageOk(items[i]) =>
                       (IsIn(items[i], filtered) <=>
                            /\ items[i].date # NoDate
                            /\ items[i].date[1] \div TicksPerDay
                                   >= Today - PeriodDaysOf(req.period)
                            /\ items[i].date[1] \div TicksPerDay <= Today)

\* C9 witness: period "Week", no explicit dates; the item of ten days ago
\* is left out and the item of today is returned.
C9_Witness ==
    /\ Returned
    /\ req.period = <<"W","e","e","k">>
    /\ \E i \in 1..Len(items) :
           /\ items[i].date # NoDate
           /\ items[i].date[1] \div TicksPerDay = Today - 10
           /\ ~IsIn(items[i], filtered)
    /\ \E i \in 1..Len(page_items) :
           page_items[i].date[1] \div TicksPerDay = Today

CountryOutcome ==
    IF error = "UnsupportedCountry" THEN UnsupportedCountry ELSE normalized_country

\* The state Start leaves: the call has raised, or no feed has answered yet.
JustStarted ==
    \/ pc = "raised" /\ tasks = <<>>
    \/ pc = "fetching" /\ \A i \in 1..Len(results) : results[i] = Pending

\* C10: two country tokens that differ only in letter case or surrounding
\* whitespace have the same outcome, a canonical code or UnsupportedCountry;
\* a canonical code is returned unchanged, and normalizing a result again
\* gives the same result.
C10_CountryNormalization ==
    (pc # "start" /\ Truthy(req.country)) =>
        /\ JustStarted =>
               \A t \in CountryTokensAll :
                   (Truthy(t) /\ Lower(Strip(t)) = Lower(Strip(req.country))) =>
                       normalize_country(t) = CountryOutcome
        /\ req.country \in SUPPORTED_COUNTRIES => CountryOutcome = req.country
        /\ CountryOutcome # UnsupportedCountry =>
               /\ CountryOutcome \in SUPPORTED_COUNTRIES
               /\ normalize_country(CountryOutcome) = CountryOutcome

\* C10 witness: " ARGENTINA" has resolved to es-AR.
C10_Witness ==
    /\ pc # "start"
    /\ req.country = <<" ","A","R","G","E","N","T","I","N","A">>
    /\ normalized_country = <<"e","s","-","A","R">>

(***************************************************************************)
(* Properties of the truncation notice, the image backfill and the         *)
(* concurrency of the fetches                                              *)
(***************************************************************************)
\* C11: the truncation notice is among the returned warnings exactly when
\* the filtered, deduplicated set extends beyond the end index of the page
\* (total > page * page_size), and then once; it is absent on the final page
\* and on the pages past the end.
C11_TruncationNotice ==
    Returned =>
        /\ total = Len(unique_items)
        /\ IsIn(TruncationWarning(total), warnings)
               <=> total > req.page * req.page_size
        /\ Cardinality({j \in 1..Len(warnings) : warnings[j].kind = "truncated"})
               <= 1

\* C11 witness: the middle page of three carries the notice.
C11_Witness ==
    /\ Returned
    /\ total = 3 /\ req.page = 2 /\ req.page_size = 1
    /\ Len(page_items) = 1
    /\ IsIn(TruncationWarning(3), warnings)

\* The GETs that the backfill of page item i awaited, and the failed ones.
BackfillGets(i) == GetsOf(<<"backfill", i>>)

FailedGets(i) == {r \in BackfillGets(i) : ~r.ok}

\* The warnings of the feeds and manual pages, which the backfill must
\* leave as they are.
FetchWarnings == manual_acc[2] \o ResultWarnings(results)

BackfillSilent ==
    /\ pc \in {"backfill", "done"} => error = "none"
    /\ pc = "backfill" => warnings = FetchWarnings
    /\ Returned =>
           warnings \in {FetchWarnings,
                         Append(FetchWarnings, TruncationWarning(total))}

\* C12: a failure at any step of the backfill of a page item (redirect
\* resolution, target fetch, status, meta-refresh hop, timeout) adds no
\* warning and does not make fetch_news fail, and the item is returned with
\* its image absent.
C12_BackfillFailuresSilent ==
    /\ BackfillSilent
    /\ Returned =>
           \A i \in 1..Len(page_items) :
               FailedGets(i) # {} => page_items[i].image_path = NoImage

\* C12, the part the code keeps: no warning, no failure of the call, and
\* no image when the GET of the target or of the meta-refresh hop failed.
C12_SilentAndAbsentAfterTarget ==
    /\ BackfillSilent
    /\ Returned =>
           \A i \in 1..Len(page_items) :
               (\E r \in FailedGets(i) : r.kind \in {"target", "hop"})
                   => page_items[i].image_path = NoImage

\* The page item i as it stood in the sorted list before the backfill.
BeforeBackfill(i) == unique_items[PageStart(req.page, req.page_size) + i]

\* C13: once the backfill has started, and when fetch_news returns, no page
\* item has an image of the proxy domain: a proxy image of the entry is
\* cleared before the first backfill GET, and a proxy image found by either
\* scan is discarded.
C13_NoProxyImage ==
    pc \in {"backfill", "done"} =>
        \A i \in 1..Len(page_items) :
            /\ ~(page_items[i].image_path # NoImage
                   /\ IsProxyImage(page_items[i].image_path))
            /\ (BeforeBackfill(i).image_path # NoImage
                   /\ IsProxyImage(BeforeBackfill(i).image_path))
                 => bf[i].stage # "skip"

\* C13 witness: a returned item whose entry carried a proxy image, and whose
\* target page and meta-refresh page both offered a proxy image, has none.
C13_Witness ==
    /\ Returned
    /\ \E i \in 1..Len(page_items) :
           /\ BeforeBackfill(i).image_path = ProxyImage
           /\ \E r \in BackfillGets(i) : r.kind = "target" /\ r.image = ProxyImage
           /\ \E r \in BackfillGets(i) : r.kind = "hop" /\ r.image = ProxyImage
           /\ page_items[i].image_path = NoImage

\* The feeds of the request: every feed of every source in force, and the
\* fallback feed.
RECURSIVE FeedCount(_)
FeedCount(srcs) ==
    IF srcs = <<>> THEN 0 ELSE Len(Head(srcs).feeds) + FeedCount(Tail(srcs))

\* The merge of line 266 has begun, or a later step has.
MergeBegun ==
    \/ pc \in {"manual", "backfill", "done"}
    \/ error = "TypeError"
    \/ items # <<>> \/ filtered # <<>> \/ unique_items # <<>>
    \/ page_items # <<>> \/ warnings # <<>> \/ manual_pos > 0

\* C14: the results of the fan-out are merged, and filtering, deduplication,
\* sorting and pagination begin, only after every feed fetch of the request,
\* registered and fallback, has completed or failed, in whatever order the
\* fetches finish.
C14_MergeAfterAllFeeds ==
    MergeBegun =>
        /\ Len(tasks) = FeedCount(sources) + 1
        /\ tasks[Len(tasks)].source.id = "google-news"
        /\ \A i \in 1..Len(tasks) :
               /\ results[i] # Pending
               /\ \E r \in log : r.unit = <<"feed", i>>

\* C14 witness: three feeds answered in the reverse of their creation
\* order, the first of them with a failure, and the call returned the
\* merged items of the other two.
C14_Witness ==
    /\ Returned
    /\ Len(tasks) = 3
    /\ Len(completion) >= 3
    /\ SubSeq(completion, 1, 3) = << <<"feed", 3>>, <<"feed", 2>>, <<"feed", 1>> >>
    /\ FeedFailed(3)
    /\ results[1][1] # <<>> /\ results[2][1] # <<>>
    /\ Len(items) = Len(results[1][1]) + Len(results[2][1])

BackfillRecords == {r \in log : r.unit[1] = "backfill"}

\* The indexes, in the sorted list, of the items of the page.
PageRange ==
    { k \in 1..Len(unique_items) :
        /\ k > PageStart(req.page, req.page_size)
        /\ k <= PageEnd(req.page, req.page_size) }

\* C15: backfill fetches are issued only after pagination, and only for the
\* items of the returned page that have no image or a proxy image: none for
\* an item outside the page slice, none for a page item with another image;
\* so at most page_size items are fetched for.
C15_BackfillOnlyPageCandidates ==
    /\ (bf # <<>> \/ BackfillRecords # {}) => pc \in {"backfill", "done"}
    /\ pc \in {"backfill", "done"} =>
         /\ Len(bf) = Len(page_items)
         /\ Len(page_items) = Cardinality(PageRange)
         /\ \A i \in 1..Len(bf) :
                bf[i].stage = "skip" <=> HasUsableImage(BeforeBackfill(i))
         /\ \A r \in BackfillRecords :
                /\ r.unit[2] \in 1..Len(page_items)
                /\ ~HasUsableImage(BeforeBackfill(r.unit[2]))
                /\ r.n = 1 => r.url = BeforeBackfill(r.unit[2]).link
                /\ \A k \in (1..Len(unique_items)) \ PageRange :
                       r.n = 1 => r.url # unique_items[k].link
         /\ Cardinality({r.unit : r \in BackfillRecords}) <= req.page_size

\* C15 witness: of a sorted list longer than the page, the page holds an
\* item with a usable image, which was skipped, and a candidate, which was
\* fetched for; the items after the page were not.
C15_Witness ==
    /\ Returned
    /\ total > Len(page_items)
    /\ \E i, j \in 1..Len(page_items) :
           /\ HasUsableImage(BeforeBackfill(i)) /\ BackfillGets(i) = {}
           /\ ~HasUsableImage(BeforeBackfill(j)) /\ BackfillGets(j) # {}
    /\ \E k \in (1..Len(unique_items)) \ PageRange :
           ~HasUsableImage(unique_items[k])

\* C16: no retry anywhere: once a GET of a URL has failed, the coroutine
\* that awaited it (a feed fetch, the manual-page loop step, the backfill of
\* an item) issues no further GET of that URL, also when the redirect
\* resolution of an aggregator link fails and the backfill falls back to
\* the link.
C16_NoRetry ==
    \A r1, r2 \in log :
        (r1.unit = r2.unit /\ r1.n < r2.n /\ ~r1.ok) => r2.url # r1.url

\* C16, the part the code keeps: a feed URL and a manual page are fetched
\* once whatever the answer, and the backfill of an item fetches nothing
\* after a failed GET of the target or of the meta-refresh hop.
C16_NoRetryButResolve ==
    /\ \A r \in log : r.kind \in {"feed", "manual"} => r.n = 1
    /\ \A r1, r2 \in log :
           (r1.unit = r2.unit /\ r1.n < r2.n /\ ~r1.ok) => r1.kind = "resolve"

KindsOf(i) == {r.kind : r \in BackfillGets(i)}

GetOfKind(i, kind) == CHOOSE r \in BackfillGets(i) : r.kind = kind

\* The chain of GETs of the backfill of page item i is one the claim allows.
BoundedChain(i) ==
    /\ Cardinality(BackfillGets(i)) <= 3
    /\ \A r1, r2 \in BackfillGets(i) : r1.kind = r2.kind => r1 = r2
    /\ KindsOf(i) \subseteq {"resolve", "target", "hop"}
    /\ "resolve" \in KindsOf(i) =>
           /\ IsAggregatorUrl(BeforeBackfill(i).link)
           /\ GetOfKind(i, "resolve").n = 1
    /\ "target" \in KindsOf(i) =>
           GetOfKind(i, "target").n = (IF "resolve" \in KindsOf(i) THEN 2 ELSE 1)
    /\ "hop" \in KindsOf(i) =>
           /\ "target" \in KindsOf(i)
           /\ GetOfKind(i, "hop").n = GetOfKind(i, "target").n + 1
           /\ GetOfKind(i, "target").ok
           /\ GetOfKind(i, "target").image \in {NoImage, ProxyImage}
           /\ bf[i].stage = "done"
    /\ bf[i].stage = "done" => "target" \in KindsOf(i)

\* C17: the backfill of a candidate ends after a bounded chain of GETs: at
\* most one redirect resolution, only for a link of the aggregator domain,
\* one GET of the target, and at most one meta-refresh hop, taken only when
\* the target page gave no usable image; nothing is fetched after the hop,
\* whatever the second page holds; and a backfill that has begun ends.
C17_BoundedBackfill ==
    /\ [](pc \in {"backfill", "done"} => \A i \in 1..Len(bf) : BoundedChain(i))
    /\ (pc = "backfill") ~> (pc = "done")

\* C17 witness: an item was returned after the longest chain: resolution,
\* target, hop.
C17_Witness ==
    /\ Returned
    /\ \E i \in 1..Len(bf) : KindsOf(i) = {"resolve", "target", "hop"}

\* The folded text that fetch_feed searches for an entry that became item,
\* as far as the item keeps it: title and source title (the summaries of
\* the feeds are empty).
ItemSearchable(item) ==
    normalize_text(item.title \o <<" ">> \o <<>> \o <<" ">> \o item.source)

\* The items of the feeds; those of the manual pages have country "".
FromFeed(item) == item.country # <<>>

\* C18: the keyword is matched per entry on every feed of the request: no
\* returned item of a feed, registered or fallback, has a folded title +
\* summary + source title that lacks the folded keyword.
C18_KeywordOnEveryFeed ==
    Returned =>
        \A i \in 1..Len(page_items) :
            FromFeed(page_items[i]) =>
                Contains(ItemSearchable(page_items[i]), normalize_text(req.keyword))

\* C18, the part the code keeps: every item of a registered feed matches
\* the keyword; the fallback feed is read with no keyword.
C18_KeywordOnRegisteredFeeds ==
    /\ \A i \in 1..Len(tasks) :
           tasks[i].keyword_lower = (IF i < Len(tasks)
                                     THEN normalize_text(req.keyword) ELSE NoneVal)
    /\ \A i \in 1..(Len(tasks) - 1) :
           \A k \in 1..Len(results[i][1]) :
               Contains(ItemSearchable(results[i][1][k]), normalize_text(req.keyword))

\* The place in its of the first item with this link.
FirstWithLink(its, link) ==
    CHOOSE i \in 1..Len(its) :
        /\ its[i].link = link
        /\ \A j \in 1..(i - 1) : its[j].link # link

\* The place in the merge of item k of feed task i, behind the manual items
\* and the items of the tasks created before.
RECURSIVE MergePlace(_, _)
MergePlace(i, k) ==
    IF i = 1 THEN Len(manual_acc[1]) + k
    ELSE MergePlace(i - 1, Len(results[i - 1][1])) + k

MergeOrder ==
    /\ \A m \in 1..Len(manual_acc[1]) : items[m] = manual_acc[1][m]
    /\ \A i \in 1..Len(tasks) :
           \A k \in 1..Len(results[i][1]) : items[MergePlace(i, k)] = results[i][1][k]
    /\ Len(items) = (IF tasks = <<>> THEN Len(manual_acc[1])
                     ELSE MergePlace(Len(tasks), Len(results[Len(tasks)][1])))
    /\ \A i \in 1..(Len(tasks) - 1) : tasks[i].source = sources[i]
    /\ tasks # <<>> => tasks[Len(tasks)].source.id = "google-news"

\* C19: deduplication keeps the first occurrence: of the items that share a
\* link and pass the language and date filters, the one earliest in merge
\* order (manual pages, then the feeds in catalog order, the fallback last)
\* is retained, and among retained items with equal timestamps the merge
\* order is kept.
C19_FirstOccurrenceWins ==
    pc \in {"backfill", "done"} =>
        /\ MergeOrder
        /\ filtered = SelectSeq(items, LAMBDA it :
                          PassesFilter(it, lang, effective_from, effective_to))
        /\ \A i \in 1..Len(filtered) :
               \E u \in 1..Len(unique_items) :
                   unique_items[u] = filtered[FirstWithLink(filtered, filtered[i].link)]
        /\ \A u \in 1..Len(unique_items) :
               /\ IsIn(unique_items[u], filtered)
               /\ unique_items[u]
                      = filtered[FirstWithLink(filtered, unique_items[u].link)]
        /\ \A u, v \in 1..Len(unique_items) :
               (u < v /\ SortKey(unique_items[u]) = SortKey(unique_items[v])) =>
                   FirstWithLink(filtered, unique_items[u].link)
                       < FirstWithLink(filtered, unique_items[v].link)

\* C19 witness: two different items with one link passed the filters, the
\* earlier one, though the older, is the one returned, and two retained
\* items have the same timestamp.
C19_Witness ==
    /\ Returned
    /\ \E i, j \in 1..Len(filtered) :
           /\ i < j
           /\ filtered[i].link = filtered[j].link
           /\ TicksOf(filtered[i]) < TicksOf(filtered[j])
           /\ \E p \in 1..Len(page_items) :
                  WithoutImage(page_items[p]) = WithoutImage(filtered[i])
    /\ \E u, v \in 1..Len(unique_items) :
           u < v /\ SortKey(unique_items[u]) = SortKey(unique_items[v])

Usable(image) == image # NoImage /\ ~IsProxyImage(image)

\* The image of page item i that the answers to its own GETs determine.
ExpectedImage(i) ==
    IF HasUsableImage(BeforeBackfill(i)) THEN BeforeBackfill(i).image_path
    ELSE IF \E r \in BackfillGets(i) : r.kind = "target" /\ r.ok /\ Usable(r.image)
         THEN GetOfKind(i, "target").image
    ELSE IF \E r \in BackfillGets(i) : r.kind = "hop" /\ r.ok /\ Usable(r.image)
         THEN GetOfKind(i, "hop").image
    ELSE NoImage

\* What the call returns as a function of the outcomes of its fetches: the
\* results of the feeds by task, the manual items and the answers to the
\* backfill GETs of each item.
ResultOfOutcomes ==
    /\ MergeOrder
    /\ unique_items
         = SortByDateDesc(Deduplicate(
               SelectSeq(items, LAMBDA it :
                   PassesFilter(it, lang, effective_from, effective_to))))
    /\ total = Len(unique_items)
    /\ Len(page_items) = Cardinality(PageRange)
    /\ \A i \in 1..Len(page_items) :
           page_items[i] = [BeforeBackfill(i) EXCEPT !.image_path = ExpectedImage(i)]
    /\ warnings = (IF total > req.page * req.page_size
                   THEN Append(FetchWarnings, TruncationWarning(total))
                   ELSE FetchWarnings)

\* A step changes a page item only in a backfill step of that item, and
\* only its image.
OwnItemOnly ==
    pc = "backfill" =>
        \A i \in 1..Len(page_items) :
            page_items'[i] # page_items[i] =>
                /\ \E r \in log' \ log : r.unit = <<"backfill", i>>
                /\ WithoutImage(page_items'[i]) = WithoutImage(page_items[i])

\* C20: the result of fetch_news does not depend on the order in which the
\* concurrent fetches complete: the feed results are merged in the order
\* the tasks were created, each backfill task writes only the image of its
\* own item, and so items, order, warnings and total are determined by the
\* parameters and the outcomes of the fetches, whatever the interleaving.
C20_OrderIndependent ==
    /\ [](Returned => ResultOfOutcomes)
    /\ [][OwnItemOnly]_vars

\* C20 witness: the feeds answered in another order than they were created,
\* the backfill GETs of two items interleaved, both items got an image, and
\* the call returned.
C20_Witness ==
    /\ Returned
    /\ Len(tasks) >= 2
    /\ completion[1] = <<"feed", Len(tasks)>>
    /\ \E a, b, c \in 1..Len(completion) :
           /\ a < b /\ b < c
           /\ completion[a] = <<"backfill", 1>>
           /\ completion[b] = <<"backfill", 2>>
           /\ completion[c] = <<"backfill", 1>>
    /\ Len(page_items) = 2
    /\ page_items[1].image_path # NoImage /\ page_items[2].image_path # NoImage

\* No outbound fetch has been issued: no feed task exists, no manual page
\* was requested, no backfill task exists, no GET was answered.
NothingIssued ==
    /\ tasks = <<>> /\ results = <<>> /\ feed_urls = <<>>
    /\ manual_pos = 0 /\ manual_acc = << <<>>, <<>> >>
    /\ bf = <<>> /\ page_items = <<>>
    /\ log = {}

\* The request carries a country that is not recognized or a period outside
\* the enum.
InvalidInput ==
    \/ Truthy(req.country) /\ normalize_country(req.country) = UnsupportedCountry
    \/ Truthy(req.period) /\ ~ValidPeriod(req.period)

\* C21: input validation precedes all I/O: when fetch_news fails with
\* UnsupportedCountry or InvalidPeriod, no fetch of a feed, of the fallback,
\* of a manual page or of the backfill has been issued for the request; and
\* a request with an unrecognized country or an invalid period fails before
\* any fetch is issued.
C21_ValidationBeforeFetch ==
    /\ error \in {"UnsupportedCountry", "InvalidPeriod"} =>
           pc = "raised" /\ NothingIssued
    /\ (pc # "start" /\ InvalidInput) =>
           /\ pc = "raised"
           /\ error \in {"UnsupportedCountry", "NoSources", "InvalidPeriod"}
           /\ NothingIssued

\* C21 witness: a call for a recognized country with registered sources
\* failed on its period, with nothing fetched.
C21_Witness ==
    /\ error = "InvalidPeriod"
    /\ Truthy(normalized_country)
    /\ sources # <<>>
    /\ NothingIssued
====
